---- MODULE Spec2Model ----
(***************************************************************************)
(* State-machine model of the agentydragon task tooling:                   *)
(*   manager_utils/tasklib.py          load_task / save_task / TaskMeta    *)
(*   manager_utils/agentydragon_task.py  status / set-status / set-deps    *)
(*   manager_utils/organize_done_tasks.py  main                            *)
(*   check_tasks.py                    check_frontmatter / check_cycles    *)
(*   check_task_cycles.py              main                                *)
(* Text (ids, dependency strings, file names) is a sequence of characters, *)
(* so that re.findall, glob patterns and sorted() are computed, not        *)
(* assumed.                                                                *)
(***************************************************************************)
EXTENDS Integers, Sequences, FiniteSets, TLC

VARIABLES
    files,        \* record files under agentydragon/tasks: path -> content
    worktrees,    \* .worktrees/<stem> directories: stem -> [dirty]
    wtfiles,      \* record copies inside a worktree: main path -> content
    branches,     \* refs/heads/agentydragon-<id>-*: id -> sequence of branches
    integration,  \* TRUE iff the integration branch "agentydragon" resolves
    now,          \* the clock read by datetime.utcnow()
    lastOp,       \* the last command that may write, or the commands in
                  \* progress with their locals
    out           \* what the last read-only command produced (the locals
                  \* of check_cycles while it is traversed step by step)

vars == <<files, worktrees, wtfiles, branches, integration, now, lastOp, out>>

\* ---------------------------------------------------------------- bounds
\* number of mutating commands in one behaviour (the clock stops there)
MaxOps == 1

\* ------------------------------------------------------------------ text
\* characters in ASCII order (what sorted() and Path comparison look at)
Alphabet == <<" ", ",", "-", ".", "0", "1", "2", "3", "4", "5", "6", "7", "8",
              "9", ":", "a", "b", "c", "d", "f", "l", "n", "o", "p", "s", "z">>

Ord(c) == CHOOSE i \in 1..Len(Alphabet) : Alphabet[i] = c

\* the character class \d of the regular expressions and [0-9] of the globs
Digit == {"0", "1", "2", "3", "4", "5", "6", "7", "8", "9"}

\* Python's str < str
RECURSIVE StrLess(_, _)
StrLess(s, t) ==
    IF t = <<>> THEN FALSE
    ELSE IF s = <<>> THEN TRUE
    ELSE IF s[1] # t[1] THEN Ord(s[1]) < Ord(t[1])
    ELSE StrLess(Tail(s), Tail(t))

startswith(s, p) == Len(s) >= Len(p) /\ SubSeq(s, 1, Len(p)) = p

endswith(s, p) == Len(s) >= Len(p) /\ SubSeq(s, Len(s) - Len(p) + 1, Len(s)) = p

\* re.findall(r"\d+", s): the maximal runs of digits of s, left to right
RECURSIVE findall_from(_, _, _, _)
findall_from(s, i, cur, acc) ==
    IF i > Len(s)
    THEN IF cur = <<>> THEN acc ELSE Append(acc, cur)
    ELSE IF s[i] \in Digit
         THEN findall_from(s, i + 1, Append(cur, s[i]), acc)
         ELSE findall_from(s, i + 1, <<>>,
                           IF cur = <<>> THEN acc ELSE Append(acc, cur))

findall_digits(s) == findall_from(s, 1, <<>>, <<>>)

\* [x for x in s if P(x)] is SelectSeq; set of the elements of a list
Elems(s) == {s[i] : i \in 1..Len(s)}

\* ---------------------------------------------------- Python dict (ordered)
\* a dict keeps the position of a key's first insertion and the last value
EmptyDict == [keys |-> <<>>, val |-> <<>>]

dict_has(d, k) == k \in Elems(d.keys)

dict_index(d, k) == CHOOSE i \in 1..Len(d.keys) : d.keys[i] = k

dict_get(d, k) == d.val[dict_index(d, k)]

dict_set(d, k, v) ==
    IF dict_has(d, k)
    THEN [d EXCEPT !.val[dict_index(d, k)] = v]
    ELSE [keys |-> Append(d.keys, k), val |-> Append(d.val, v)]

\* dict.get(k, [])
dict_get_list(d, k) == IF dict_has(d, k) THEN dict_get(d, k) ELSE <<>>

\* ----------------------------------------------------------------- paths
\* a record file is agentydragon/tasks/<stem>.md (dir = "tasks") or
\* agentydragon/tasks/.done/<stem>.md (dir = ".done")
\* (wt = TRUE: the copy of that file inside the worktree .worktrees/<stem>/)
Path(dir, stem) == [dir |-> dir, stem |-> stem, wt |-> FALSE]

\* wt_root / md.stem / md.relative_to(repo)
wt_task_path(md) == [md EXCEPT !.wt = TRUE]

\* Path.__lt__ compares the parts: ".done" sorts before every "NN-..." name
PathLess(p, q) ==
    IF p.dir = q.dir THEN StrLess(p.stem, q.stem)
    ELSE p.dir = ".done"

\* sorted(paths): insertion of x into an already sorted list
RECURSIVE insert_path(_, _)
insert_path(s, x) ==
    IF s = <<>> THEN <<x>>
    ELSE IF PathLess(x, s[1]) THEN <<x>> \o s
    ELSE <<s[1]>> \o insert_path(Tail(s), x)

RECURSIVE sorted_paths(_)
sorted_paths(S) ==
    IF S = {} THEN <<>>
    ELSE LET x == CHOOSE y \in S : TRUE
         IN insert_path(sorted_paths(S \ {x}), x)

\* the glob [0-9][0-9]-*.md applied to a file name <stem>.md
glob_task(stem) ==
    /\ Len(stem) >= 3
    /\ stem[1] \in Digit
    /\ stem[2] \in Digit
    /\ stem[3] = "-"

PlanSuffix == <<"-", "p", "l", "a", "n">>

\* --------------------------------------------------------------- tasklib
\* TaskMeta(**toml.loads(frontmatter)): the fields of a record; status is a
\* plain str field
TaskMeta(c) ==
    [id |-> c.id, title |-> c.title, status |-> c.status,
     dependencies |-> c.dependencies, last_updated |-> c.last_updated]

\* load_task raises (no frontmatter match, TOML error, pydantic error) or
\* returns the TaskMeta; c.fm says whether the header block parses and
\* carries the required, well-typed fields
load_ok(c) == c.fm

load_task(c) == TaskMeta(c)

\* save_task: the file is rewritten from the TaskMeta fields
save_task(meta) ==
    [fm |-> TRUE, id |-> meta.id, title |-> meta.title, status |-> meta.status,
     dependencies |-> meta.dependencies, last_updated |-> meta.last_updated]

\* ------------------------------------------------- status: loading records
\* the files the scan passes to load_task, in sorted order
status_scan(fs) ==
    sorted_paths({p \in DOMAIN fs :
                    glob_task(p.stem) /\ ~endswith(p.stem, PlanSuffix)})

\* first loop of status(): all_meta[meta.id] = meta, path_map[meta.id] = md
RECURSIVE status_load(_, _, _)
status_load(fs, paths, acc) ==
    IF paths = <<>> THEN acc
    ELSE LET md == paths[1]
             c  == fs[md]
         IN IF ~load_ok(c)
            THEN status_load(fs, Tail(paths),
                             [acc EXCEPT !.errors = Append(@, md)])
            ELSE LET meta == load_task(c)
                 IN status_load(fs, Tail(paths),
                        [acc EXCEPT
                           !.all_meta = dict_set(@, meta.id, meta),
                           !.path_map = dict_set(@, meta.id, md)])

\* second loop: a record copy inside the task's worktree replaces the record
RECURSIVE status_reload(_, _, _)
status_reload(wf, tids, acc) ==
    IF tids = <<>> THEN acc
    ELSE LET tid     == tids[1]
             md      == dict_get(acc.path_map, tid)
             wt_task == wt_task_path(md)
         IN IF wt_task \notin DOMAIN wf
            THEN status_reload(wf, Tail(tids), acc)
            ELSE IF ~load_ok(wf[wt_task])
            THEN status_reload(wf, Tail(tids),
                               [acc EXCEPT !.errors = Append(@, wt_task)])
            ELSE status_reload(wf, Tail(tids),
                     [acc EXCEPT
                        !.all_meta = dict_set(@, tid, load_task(wf[wt_task])),
                        !.path_map = dict_set(@, tid, wt_task)])

status_records(fs, wf) ==
    LET first == status_load(fs, status_scan(fs),
                     [all_meta |-> EmptyDict, path_map |-> EmptyDict,
                      errors |-> <<>>])
    IN status_reload(wf, first.path_map.keys, first)

\* ------------------------------------------- status: the dependency graph
merged_ids(all_meta) ==
    {tid \in Elems(all_meta.keys) : dict_get(all_meta, tid).status = "Merged"}

\* (mutant) the merged filter forgotten: only "d in all_meta" is tested
active_deps_keep_merged(all_meta, meta) ==
    LET keep(d) == dict_has(all_meta, d)
    IN SelectSeq(findall_digits(meta.dependencies), keep)

\* one entry of deps_map
active_deps(all_meta, meta) ==
    LET keep(d) == dict_has(all_meta, d) /\ d \notin merged_ids(all_meta)
    IN SelectSeq(findall_digits(meta.dependencies), keep)

\* deps_map, in the key order of all_meta
deps_map_of(all_meta) ==
    [keys |-> all_meta.keys,
     val  |-> [i \in 1..Len(all_meta.keys) |->
                 active_deps(all_meta, all_meta.val[i])]]

\* ----------------------------------------------- status: topological sort
\* visit(n) with temp/perm marks; st.err is <<n>> once the RuntimeError
\* "Circular dependency detected at task n" has been raised
RECURSIVE visit(_, _, _), visit_each(_, _, _)
visit(deps_map, n, st) ==
    IF st.err # <<>> THEN st
    ELSE IF n \in st.perm THEN st
    ELSE IF n \in st.temp THEN [st EXCEPT !.err = <<n>>]
    ELSE LET s1 == [st EXCEPT !.temp = @ \cup {n}]
             s2 == visit_each(deps_map, dict_get_list(deps_map, n), s1)
         IN IF s2.err # <<>> THEN s2
            ELSE [s2 EXCEPT !.temp = @ \ {n},
                            !.perm = @ \cup {n},
                            !.sorted_ids = Append(@, n)]

visit_each(deps_map, ns, st) ==
    IF ns = <<>> \/ st.err # <<>> THEN st
    ELSE visit_each(deps_map, Tail(ns), visit(deps_map, ns[1], st))

\* sorted(all_meta.values(), key=lambda m: path_map[m.id].name): stable
\* insertion by file name
RECURSIVE insert_by_name(_, _, _)
insert_by_name(path_map, s, m) ==
    IF s = <<>> THEN <<m>>
    ELSE IF StrLess(dict_get(path_map, m.id).stem,
                    dict_get(path_map, s[1].id).stem)
         THEN <<m>> \o s
         ELSE <<s[1]>> \o insert_by_name(path_map, Tail(s), m)

RECURSIVE sorted_by_name(_, _)
sorted_by_name(path_map, ms) ==
    IF ms = <<>> THEN <<>>
    ELSE insert_by_name(path_map,
                        sorted_by_name(path_map, SubSeq(ms, 1, Len(ms) - 1)),
                        ms[Len(ms)])

filename_order(all_meta, path_map) ==
    LET ms == sorted_by_name(path_map, all_meta.val)
    IN [i \in 1..Len(ms) |-> ms[i].id]

\* (mutant) the post-order list reversed before use
topo_sort_reversed(all_meta, path_map, deps_map) ==
    LET st == visit_each(deps_map, all_meta.keys,
                  [temp |-> {}, perm |-> {}, sorted_ids |-> <<>>, err |-> <<>>])
        n  == Len(st.sorted_ids)
    IN IF st.err = <<>>
       THEN [sorted_ids |-> [i \in 1..n |-> st.sorted_ids[n + 1 - i]],
             warning |-> <<>>]
       ELSE [sorted_ids |-> filename_order(all_meta, path_map),
             warning |-> st.err]

\* the try/except around the sort: [sorted_ids, warning]
topo_sort(all_meta, path_map, deps_map) ==
    LET st == visit_each(deps_map, all_meta.keys,
                  [temp |-> {}, perm |-> {}, sorted_ids |-> <<>>, err |-> <<>>])
    IN IF st.err = <<>>
       THEN [sorted_ids |-> st.sorted_ids, warning |-> <<>>]
       ELSE [sorted_ids |-> filename_order(all_meta, path_map),
             warning |-> st.err]

\* -------------------------------------------------- repository state probe
\* git for-each-ref refs/heads/agentydragon-<tid>-*  (subprocess.run: never
\* raises; no match is an empty list)
for_each_ref(br, tid) == IF tid \in DOMAIN br THEN br[tid] ELSE <<>>

\* git merge-base --is-ancestor b agentydragon: return code 0 iff b has no
\* commit that the integration branch lacks; any other code (also the error
\* code when "agentydragon" does not resolve) leaves merged_flag = 'N'
is_ancestor(integ, b) == integ /\ b.ahead = 0

\* subprocess.check_output(git rev-list / diff / merge-base / merge-tree
\* ... agentydragon) raises CalledProcessError iff git exits non-zero
query_ok(integ) == integ

\* branch_info of one row, given a branch that exists and is not merged
branch_text(b) ==
    IF b.ahead = 0 /\ b.behind = 0
    THEN [text |-> "up-to-date", stat |-> b.stat]
    ELSE [text |-> "behind/ahead", behind |-> b.behind, ahead |-> b.ahead,
          stat |-> b.stat, conflict |-> b.conflict]

\* worktree detection: 'none', 'clean' or 'dirty'
wt_info_of(wts, slug) ==
    IF slug \notin DOMAIN wts THEN "none"
    ELSE IF wts[slug].dirty THEN "dirty" ELSE "clean"

\* bottom_merged_ids: merged, no branch, no worktree directory
bottom_merged_ids(all_meta, path_map, sorted_ids, br, wts) ==
    {tid \in Elems(sorted_ids) :
        /\ dict_get(all_meta, tid).status = "Merged"
        /\ for_each_ref(br, tid) = <<>>
        /\ dict_get(path_map, tid).stem \notin DOMAIN wts}

\* (mutant) the worktree test forgotten
fully_merged_any_worktree(meta, branch_exists, wt_info) ==
    meta.status = "Merged" /\ ~branch_exists

\* "skip fully merged tasks (no branch, no worktree)"
fully_merged(meta, branch_exists, wt_info) ==
    meta.status = "Merged" /\ ~branch_exists /\ wt_info = "none"

\* the loop that builds rows and merged_tasks; acc.raised is TRUE once a
\* check_output call has raised (the exception leaves status())
RECURSIVE status_rows(_, _, _, _, _, _, _, _)
status_rows(all_meta, path_map, deps_map, bottom, br, integ, wts, acc) ==
    IF acc.todo = <<>> \/ acc.raised THEN acc
    ELSE LET tid   == acc.todo[1]
             meta  == dict_get(all_meta, tid)
             slug  == dict_get(path_map, tid).stem
             refs  == for_each_ref(br, tid)
             branch_exists == refs # <<>>
             merged_flag   == branch_exists /\ is_ancestor(integ, refs[1])
             wt_info == wt_info_of(wts, slug)
             notin_bottom(d) == d \notin bottom
             deps  == SelectSeq(dict_get_list(deps_map, tid), notin_bottom)
             rest  == [acc EXCEPT !.todo = Tail(@)]
             row(info) == [id |-> tid, title |-> meta.title,
                           status |-> meta.status, deps |-> deps,
                           last_updated |-> meta.last_updated,
                           branch_info |-> info, wt_info |-> wt_info]
         IN IF fully_merged(meta, branch_exists, wt_info)
            THEN status_rows(all_meta, path_map, deps_map, bottom, br, integ, wts,
                     [rest EXCEPT !.merged_tasks = Append(@, tid)])
            ELSE IF ~branch_exists
            THEN status_rows(all_meta, path_map, deps_map, bottom, br, integ, wts,
                     [rest EXCEPT !.rows = Append(@, row([text |-> "no branch"]))])
            ELSE IF merged_flag
            THEN status_rows(all_meta, path_map, deps_map, bottom, br, integ, wts,
                     [rest EXCEPT !.rows = Append(@, row([text |-> "merged"]))])
            ELSE IF ~query_ok(integ)
            THEN [rest EXCEPT !.raised = TRUE]
            ELSE status_rows(all_meta, path_map, deps_map, bottom, br, integ, wts,
                     [rest EXCEPT !.rows = Append(@, row(branch_text(refs[1])))])

\* (mutant) >= for >
ahead_or_level(b) == b.ahead >= 0

\* int(a_cnt) > 0, a_cnt the left count of rev-list --left-right --count
ahead_of_integration(b) == b.ahead > 0

\* the Ready-to-merge loop
RECURSIVE status_ready(_, _, _, _)
status_ready(all_meta, br, integ, acc) ==
    IF acc.todo = <<>> \/ acc.raised THEN acc
    ELSE LET tid  == acc.todo[1]
             meta == dict_get(all_meta, tid)
             refs == for_each_ref(br, tid)
             rest == [acc EXCEPT !.todo = Tail(@)]
         IN IF meta.status # "Done" \/ refs = <<>>
            THEN status_ready(all_meta, br, integ, rest)
            ELSE IF ~query_ok(integ)
            THEN [rest EXCEPT !.raised = TRUE]
            ELSE IF ahead_of_integration(refs[1])
            THEN status_ready(all_meta, br, integ,
                              [rest EXCEPT !.ready_tasks = Append(@, tid)])
            ELSE status_ready(all_meta, br, integ, rest)

\* (mutant) the "tid not in merged_ids" test forgotten
unblocked_any_status(all_meta, deps_map, sorted_ids) ==
    LET free(tid) == dict_get_list(deps_map, tid) = <<>>
    IN SelectSeq(sorted_ids, free)

\* unblocked = [tid for tid in sorted_ids
\*              if tid not in merged_ids and not deps_map.get(tid)]
unblocked_of(all_meta, deps_map, sorted_ids) ==
    LET free(tid) == /\ tid \notin merged_ids(all_meta)
                     /\ dict_get_list(deps_map, tid) = <<>>
    IN SelectSeq(sorted_ids, free)

\* the whole status command
status(fs, wf, wts, br, integ) ==
    LET recs     == status_records(fs, wf)
        all_meta == recs.all_meta
        path_map == recs.path_map
        deps_map == deps_map_of(all_meta)
        topo     == topo_sort(all_meta, path_map, deps_map)
        bottom   == bottom_merged_ids(all_meta, path_map, topo.sorted_ids,
                                      br, wts)
        tab      == status_rows(all_meta, path_map, deps_map, bottom, br, integ,
                        wts, [todo |-> topo.sorted_ids, rows |-> <<>>,
                              merged_tasks |-> <<>>, raised |-> FALSE])
        rdy      == status_ready(all_meta, br, integ,
                        [todo |-> topo.sorted_ids, ready_tasks |-> <<>>,
                         raised |-> FALSE])
        base     == [cmd |-> "status", errors |-> recs.errors,
                     all_meta |-> all_meta, path_map |-> path_map,
                     deps_map |-> deps_map, sorted_ids |-> topo.sorted_ids,
                     warning |-> topo.warning]
        none     == [rows |-> <<>>, merged_tasks |-> <<>>,
                     ready_tasks |-> <<>>, unblocked |-> <<>>]
    IN IF tab.raised
       THEN base @@ none @@ [raised |-> "rows", exit |-> 1]
       ELSE IF rdy.raised
       THEN base @@ [rows |-> tab.rows, merged_tasks |-> tab.merged_tasks,
                     ready_tasks |-> <<>>, unblocked |-> <<>>,
                     raised |-> "ready", exit |-> 1]
       ELSE base @@ [rows |-> tab.rows, merged_tasks |-> tab.merged_tasks,
                     ready_tasks |-> rdy.ready_tasks,
                     unblocked |-> unblocked_of(all_meta, deps_map,
                                                topo.sorted_ids),
                     raised |-> "no", exit |-> 0]

\* ------------------------------------------------------------ check_tasks
\* all orders in which rglob may yield a set of paths
RECURSIVE Orders(_)
Orders(S) ==
    IF S = {} THEN {<<>>}
    ELSE UNION {{<<x>> \o o : o \in Orders(S \ {x})} : x \in S}

index_of(s, x) == CHOOSE i \in 1..Len(s) : s[i] = x /\ \A j \in 1..(i - 1) : s[j] # x

\* check_tasks.skip_path: worktree copies, the .done archive, plan files
skip_path(p) == p.wt \/ p.dir = ".done" \/ endswith(p.stem, PlanSuffix)

\* check_frontmatter: the files whose load_task raises, in scan order
check_frontmatter(fs, order) ==
    LET bad(p) == glob_task(p.stem) /\ ~skip_path(p) /\ ~load_ok(fs[p])
    IN SelectSeq(order, bad)

\* the loading loop of check_cycles: load_task is not guarded, a file that
\* does not load raises out of check_cycles
RECURSIVE cc_load(_, _, _)
cc_load(fs, order, acc) ==
    IF order = <<>> \/ acc.raised THEN acc
    ELSE LET md == order[1]
         IN IF ~glob_task(md.stem) \/ skip_path(md)
            THEN cc_load(fs, Tail(order), acc)
            ELSE IF ~load_ok(fs[md])
            THEN [acc EXCEPT !.raised = TRUE]
            ELSE LET meta == load_task(fs[md])
                     unmerged(d) == d \notin acc.merged
                 IN IF meta.status = "Merged"
                    THEN cc_load(fs, Tail(order),
                                 [acc EXCEPT !.merged = @ \cup {meta.id}])
                    ELSE cc_load(fs, Tail(order),
                             [acc EXCEPT !.deps_map = dict_set(@, meta.id,
                                 SelectSeq(findall_digits(meta.dependencies),
                                           unmerged))])

\* check_cycles.visit: every revisit of a node on the stack appends a cycle
RECURSIVE cc_visit(_, _, _), cc_visit_each(_, _, _)
cc_visit(deps_map, n, st) ==
    IF n \in Elems(st.stack)
    THEN [st EXCEPT !.failures =
            Append(@, SubSeq(st.stack, index_of(st.stack, n), Len(st.stack))
                      \o <<n>>)]
    ELSE IF n \in st.visited THEN st
    ELSE LET s1 == [st EXCEPT !.stack = Append(@, n)]
             s2 == cc_visit_each(deps_map, dict_get_list(deps_map, n), s1)
         IN [s2 EXCEPT !.stack = SubSeq(@, 1, Len(@) - 1),
                       !.visited = @ \cup {n}]

cc_visit_each(deps_map, ns, st) ==
    IF ns = <<>> THEN st
    ELSE cc_visit_each(deps_map, Tail(ns), cc_visit(deps_map, ns[1], st))

\* check_cycles(): [raised, failures]
check_cycles(fs, order) ==
    LET ld == cc_load(fs, order,
                  [merged |-> {}, deps_map |-> EmptyDict, raised |-> FALSE])
        st == cc_visit_each(ld.deps_map, ld.deps_map.keys,
                  [stack |-> <<>>, visited |-> {}, failures |-> <<>>])
    IN IF ld.raised
       THEN [raised |-> TRUE, failures |-> <<>>, deps_map |-> ld.deps_map]
       ELSE [raised |-> FALSE, failures |-> st.failures,
             deps_map |-> ld.deps_map]

\* check_tasks.main(): file types, frontmatter, cycles, exit code
check_tasks_main(fs, order) ==
    LET fm_fail == check_frontmatter(fs, order)
        cyc     == check_cycles(fs, order)
    IN [cmd |-> "check_tasks", fm_fail |-> fm_fail,
        raised |-> cyc.raised, cyc_fail |-> cyc.failures,
        deps_map |-> cyc.deps_map,
        exit |-> IF cyc.raised \/ fm_fail # <<>> \/ cyc.failures # <<>>
                 THEN 1 ELSE 0]

\* ------------------------------------------------------ check_task_cycles
\* loading loop of check_task_cycles.main: skips plan files and worktree
\* copies, not the .done archive
RECURSIVE ctc_load(_, _, _)
ctc_load(fs, order, acc) ==
    IF order = <<>> \/ acc.raised THEN acc
    ELSE LET md == order[1]
         IN IF ~glob_task(md.stem) \/ endswith(md.stem, PlanSuffix) \/ md.wt
            THEN ctc_load(fs, Tail(order), acc)
            ELSE IF ~load_ok(fs[md])
            THEN [acc EXCEPT !.raised = TRUE]
            ELSE LET meta == load_task(fs[md])
                 IN IF meta.status = "Merged"
                    THEN ctc_load(fs, Tail(order),
                                  [acc EXCEPT !.merged = @ \cup {meta.id}])
                    ELSE ctc_load(fs, Tail(order),
                             [acc EXCEPT !.deps_map = dict_set(@, meta.id,
                                 findall_digits(meta.dependencies))])

\* "filter out dependencies on merged tasks", after all files are loaded
ctc_filter(ld) ==
    LET unmerged(d) == d \notin ld.merged
    IN [keys |-> ld.deps_map.keys,
        val  |-> [i \in 1..Len(ld.deps_map.keys) |->
                    SelectSeq(ld.deps_map.val[i], unmerged)]]

\* check_task_cycles.visit: sys.exit(1) at the first revisit of the stack;
\* st.cycle is the cycle printed, <<>> while none was found
RECURSIVE ctc_visit(_, _, _), ctc_visit_each(_, _, _)
ctc_visit(deps_map, n, st) ==
    IF st.cycle # <<>> THEN st
    ELSE IF n \in Elems(st.stack)
    THEN [st EXCEPT !.cycle =
            SubSeq(st.stack, index_of(st.stack, n), Len(st.stack)) \o <<n>>]
    ELSE IF n \in st.visited THEN st
    ELSE LET s1 == [st EXCEPT !.stack = Append(@, n)]
             s2 == ctc_visit_each(deps_map, dict_get_list(deps_map, n), s1)
         IN IF s2.cycle # <<>> THEN s2
            ELSE [s2 EXCEPT !.stack = SubSeq(@, 1, Len(@) - 1),
                            !.visited = @ \cup {n}]

ctc_visit_each(deps_map, ns, st) ==
    IF ns = <<>> \/ st.cycle # <<>> THEN st
    ELSE ctc_visit_each(deps_map, Tail(ns), ctc_visit(deps_map, ns[1], st))

\* (mutant) the sys.exit(1) of visit lost: the command always exits 0
check_task_cycles_main_exit_zero(fs, order) ==
    LET ld == ctc_load(fs, order,
                  [merged |-> {}, deps_map |-> EmptyDict, raised |-> FALSE])
        dm == ctc_filter(ld)
        st == ctc_visit_each(dm, dm.keys,
                  [stack |-> <<>>, visited |-> {}, cycle |-> <<>>])
    IN [cmd |-> "check_task_cycles", raised |-> ld.raised,
        cycle |-> st.cycle, exit |-> 0]

check_task_cycles_main(fs, order) ==
    LET ld == ctc_load(fs, order,
                  [merged |-> {}, deps_map |-> EmptyDict, raised |-> FALSE])
        dm == ctc_filter(ld)
        st == ctc_visit_each(dm, dm.keys,
                  [stack |-> <<>>, visited |-> {}, cycle |-> <<>>])
    IN IF ld.raised
       THEN [cmd |-> "check_task_cycles", raised |-> TRUE,
             cycle |-> <<>>, exit |-> 1]
       ELSE [cmd |-> "check_task_cycles", raised |-> FALSE,
             cycle |-> st.cycle, exit |-> IF st.cycle # <<>> THEN 1 ELSE 0]

\* ------------------------------------------------------------- set-status
\* task_dir().glob(f'{task_id}-*.md'): top-level files only, order unspecified
glob_id(fs, task_id) ==
    {p \in DOMAIN fs : p.dir = "tasks" /\ startswith(p.stem, task_id \o <<"-">>)}

\* (mutant) the status assignment lost: only last_updated changes
set_status_file_keeps_status(c, value, t) ==
    save_task([load_task(c) EXCEPT !.last_updated = t])

\* the file as set_status leaves it: load, assign status and last_updated, save
set_status_file(c, value, t) ==
    save_task([load_task(c) EXCEPT !.status = value, !.last_updated = t])

\* --------------------------------------------------------------- set-deps
\* the decimal digit of a small number, as str() writes it
DigitChar(n) == <<"0", "1", "2", "3", "4", "5", "6", "7", "8", "9">>[n + 1]

\* datetime.utcnow().isoformat(): the clock counts the days of December
\* 2025, read at 10:20:30, so reading t is the text 2025-12-0tT10:20:30
isoformat(t) ==
    <<"2", "0", "2", "5", "-", "1", "2", "-", "0", DigitChar(t), "T",
      "1", "0", ":", "2", "0", ":", "3", "0">>

\* ', '.join(deps)
RECURSIVE join(_)
join(deps) ==
    IF deps = <<>> THEN <<>>
    ELSE IF Len(deps) = 1 THEN deps[1]
    ELSE deps[1] \o <<",", " ">> \o join(Tail(deps))

\* f'as of {now}: ' + ', '.join(deps)
deps_text(deps, t) ==
    <<"a", "s", " ", "o", "f", " ">> \o isoformat(t) \o <<":", " ">> \o join(deps)

\* the file as set_deps leaves it: load, assign dependencies and
\* last_updated, save
set_deps_file(c, deps, t) ==
    save_task([load_task(c) EXCEPT !.dependencies = deps_text(deps, t),
                                   !.last_updated = t])

\* ======================================================================
\* tasklib on the text of a file.  Above, a file is its parsed record; here
\* it is the characters read_text() returns, so that the header pattern,
\* the TOML reading and writing and the stripping of the body are computed.
\* ======================================================================
NL == "\n"

\* the characters \s matches and str.strip() / str.lstrip() remove
Whitespace == {" ", NL}

Min(S) == CHOOSE x \in S : \A y \in S : x <= y

Max(S) == CHOOSE x \in S : \A y \in S : x >= y

\* s.lstrip(chars), s.rstrip(chars), s.strip(chars)
lstrip(s, cs) ==
    LET J == {j \in 1..Len(s) : s[j] \notin cs}
    IN IF J = {} THEN <<>> ELSE SubSeq(s, Min(J), Len(s))

rstrip(s, cs) ==
    LET J == {j \in 1..Len(s) : s[j] \notin cs}
    IN IF J = {} THEN <<>> ELSE SubSeq(s, 1, Max(J))

strip(s, cs) == lstrip(rstrip(s, cs), cs)

\* s.find(pat, i): the first index >= i where pat occurs in s, 0 if none
find(s, pat, i) ==
    LET J == {j \in i..(Len(s) - Len(pat) + 1) :
                 SubSeq(s, j, j + Len(pat) - 1) = pat}
    IN IF J = {} THEN 0 ELSE Min(J)

\* s.split("\n"): the pieces between the newlines of s
splitlines(s) ==
    LET nl == {i \in 1..Len(s) : s[i] = NL}
        n  == Cardinality(nl)
        pos(k)   == CHOOSE i \in nl : Cardinality({j \in nl : j < i}) = k - 1
        start(k) == IF k = 1 THEN 1 ELSE pos(k - 1) + 1
        stop(k)  == IF k = n + 1 THEN Len(s) ELSE pos(k) - 1
    IN [k \in 1..(n + 1) |-> SubSeq(s, start(k), stop(k))]

Fence == <<"+", "+", "+">>

\* FRONTMATTER_RE.match(text) for ^\+\+\+\s*(.*?)\s*\+\+\+ with re.S: the
\* text starts with +++; the group runs from the first character that is
\* not whitespace to the next +++, wherever that stands, less the
\* whitespace before it; end is the index of the last character matched
FRONTMATTER_RE(text) ==
    IF ~startswith(text, Fence)
    THEN [matched |-> FALSE, group |-> <<>>, end |-> 0]
    ELSE LET rest == {j \in 4..Len(text) : text[j] \notin Whitespace}
             p == IF rest = {} THEN Len(text) + 1 ELSE Min(rest)
             q == find(text, Fence, p)
         IN IF q = 0
            THEN [matched |-> FALSE, group |-> <<>>, end |-> 0]
            ELSE [matched |-> TRUE,
                  group |-> rstrip(SubSeq(text, p, q - 1), Whitespace),
                  end |-> q + 2]

\* the characters of a bare TOML key
BareKeyChars ==
    {"a", "b", "c", "d", "e", "f", "g", "h", "i", "j", "k", "l", "m", "n", "o",
     "p", "q", "r", "s", "t", "u", "v", "w", "x", "y", "z", "_", "-"} \cup Digit

Quote == "\""

\* one line of a TOML document, for the subset the record files use (bare
\* key = "basic string", comments, blank lines): [kind, key, val] with kind
\* "skip", "pair" or "error"
toml_line(line) ==
    LET l  == strip(line, {" "})
        e  == find(l, <<"=">>, 1)
        k  == rstrip(SubSeq(l, 1, e - 1), {" "})
        v  == lstrip(SubSeq(l, e + 1, Len(l)), {" "})
        c  == find(v, <<Quote>>, 2)
        after == lstrip(SubSeq(v, c + 1, Len(v)), {" "})
        bad == [kind |-> "error", key |-> <<>>, val |-> <<>>]
    IN IF l = <<>> \/ l[1] = "#"
       THEN [kind |-> "skip", key |-> <<>>, val |-> <<>>]
       ELSE IF e = 0 \/ k = <<>> \/ ~(Elems(k) \subseteq BareKeyChars) THEN bad
       ELSE IF v = <<>> \/ v[1] # Quote \/ c = 0 THEN bad
       ELSE IF after # <<>> /\ after[1] # "#" THEN bad
       ELSE [kind |-> "pair", key |-> k, val |-> SubSeq(v, 2, c - 1)]

\* toml.loads(s): [ok, dict]; a line that is not TOML or a key defined twice
\* raises TomlDecodeError
RECURSIVE toml_lines(_, _)
toml_lines(ls, acc) ==
    IF ls = <<>> \/ ~acc.ok THEN acc
    ELSE LET r == toml_line(ls[1])
         IN IF r.kind = "skip" THEN toml_lines(Tail(ls), acc)
            ELSE IF r.kind = "error" \/ dict_has(acc.dict, r.key)
            THEN [acc EXCEPT !.ok = FALSE]
            ELSE toml_lines(Tail(ls),
                            [acc EXCEPT !.dict = dict_set(@, r.key, r.val)])

toml_loads(s) == toml_lines(splitlines(s), [ok |-> TRUE, dict |-> EmptyDict])

\* the header keys
k_id           == <<"i", "d">>
k_title        == <<"t", "i", "t", "l", "e">>
k_status       == <<"s", "t", "a", "t", "u", "s">>
k_dependencies == <<"d", "e", "p", "e", "n", "d", "e", "n", "c", "i", "e", "s">>
k_last_updated == <<"l", "a", "s", "t", "_", "u", "p", "d", "a", "t", "e", "d">>

\* pydantic's reading of a datetime field from a string, for the forms
\* YYYY-MM-DDTHH:MM:SS and YYYY-MM-DD HH:MM:SS: [ok, value], the value being
\* the datetime written as isoformat() writes it
parse_datetime(s) ==
    LET digits == {1, 2, 3, 4, 6, 7, 9, 10, 12, 13, 15, 16, 18, 19}
        shaped ==
            /\ Len(s) = 19
            /\ \A i \in digits : s[i] \in Digit
            /\ s[5] = "-" /\ s[8] = "-" /\ s[14] = ":" /\ s[17] = ":"
            /\ s[11] \in {"T", " "}
    IN IF shaped THEN [ok |-> TRUE, value |-> [s EXCEPT ![11] = "T"]]
       ELSE [ok |-> FALSE, value |-> <<>>]

\* TaskMeta(**meta): id, title and status are required, dependencies
\* defaults to "", last_updated to the clock reading t; keys that are not
\* fields are ignored; status is any string
TaskMeta_validate(d, t) ==
    LET missing == \E k \in {k_id, k_title, k_status} : ~dict_has(d, k)
        stamp == IF dict_has(d, k_last_updated)
                 THEN parse_datetime(dict_get(d, k_last_updated))
                 ELSE [ok |-> TRUE, value |-> isoformat(t)]
    IN IF missing \/ ~stamp.ok
       THEN [ok |-> FALSE]
       ELSE [ok |-> TRUE,
             id |-> dict_get(d, k_id),
             title |-> dict_get(d, k_title),
             status |-> dict_get(d, k_status),
             dependencies |-> dict_get_list(d, k_dependencies),
             last_updated |-> stamp.value]

\* load_task on the text of a file, read at clock reading t:
\* [ok, error, meta, body]
load_task_text(text, t) ==
    LET m    == FRONTMATTER_RE(text)
        doc  == toml_loads(m.group)
        tm   == TaskMeta_validate(doc.dict, t)
        fail(e) == [ok |-> FALSE, error |-> e, meta |-> [ok |-> FALSE],
                    body |-> <<>>]
    IN IF ~m.matched THEN fail("ValueError")
       ELSE IF ~doc.ok THEN fail("TomlDecodeError")
       ELSE IF ~tm.ok THEN fail("ValidationError")
       ELSE [ok |-> TRUE, error |-> "none", meta |-> tm,
             body |-> lstrip(SubSeq(text, m.end + 1, Len(text)), {NL})]

\* one line of toml.dumps: key = "value" (the values written here hold no
\* quote or backslash, which dumps would escape)
toml_pair(k, v) == k \o <<" ", "=", " ", Quote>> \o v \o <<Quote, NL>>

\* toml.dumps(meta.dict()), last_updated already isoformat() text
toml_dumps(meta) ==
    toml_pair(k_id, meta.id) \o toml_pair(k_title, meta.title)
    \o toml_pair(k_status, meta.status)
    \o toml_pair(k_dependencies, meta.dependencies)
    \o toml_pair(k_last_updated, meta.last_updated)

\* the content save_task writes: f"+++\n{fm}\n+++\n\n{body.lstrip()}"
save_task_text(meta, body) ==
    Fence \o <<NL>> \o strip(toml_dumps(meta), Whitespace) \o <<NL>> \o Fence
    \o <<NL, NL>> \o lstrip(body, Whitespace)

\* ------------------------------------------- the record files tried as text
\* header lines
l_id ==
    <<"i", "d", " ", "=", " ", Quote, "9", "9", Quote>>

l_title ==
    <<"t", "i", "t", "l", "e", " ", "=", " ", Quote, "T", Quote>>

l_status ==
    <<"s", "t", "a", "t", "u", "s", " ", "=", " ", Quote, "S", "t", "a", "r",
      "t", "e", "d", Quote>>

l_dependencies ==
    <<"d", "e", "p", "e", "n", "d", "e", "n", "c", "i", "e", "s", " ", "=",
      " ", Quote, "0", "1", Quote>>

l_last_updated ==
    <<"l", "a", "s", "t", "_", "u", "p", "d", "a", "t", "e", "d", " ", "=",
      " ", Quote, "2", "0", "2", "3", "-", "0", "1", "-", "0", "1", "T", "1",
      "2", ":", "0", "0", ":", "0", "0", Quote>>

l_last_updated_space ==
    <<"l", "a", "s", "t", "_", "u", "p", "d", "a", "t", "e", "d", " ", "=",
      " ", Quote, "2", "0", "2", "3", "-", "0", "1", "-", "0", "1", " ", "1",
      "2", ":", "0", "0", ":", "0", "0", Quote>>

l_last_updated_bad ==
    <<"l", "a", "s", "t", "_", "u", "p", "d", "a", "t", "e", "d", " ", "=",
      " ", Quote, "b", "a", "d", Quote>>

l_owner ==
    <<"o", "w", "n", "e", "r", " ", "=", " ", Quote, "m", "e", Quote>>

\* headers: every field; the required fields only; status missing; a
\* last_updated that is no timestamp; a key that is no field; a timestamp
\* written with a space
Headers ==
    { <<l_id, l_title, l_status, l_dependencies, l_last_updated>>,
      <<l_id, l_title, l_status>>,
      <<l_id, l_title, l_dependencies, l_last_updated>>,
      <<l_id, l_title, l_status, l_last_updated_bad>>,
      <<l_id, l_title, l_status, l_owner, l_last_updated>>,
      <<l_id, l_title, l_status, l_dependencies, l_last_updated_space>> }

\* the delimiter line: as it should be, one + short, absent
Delimiters == {<<"+", "+", "+", NL>>, <<"+", "+", NL>>, <<>>}

\* bodies: a heading; a blank line before it; an indented first line; a
\* heading with +++ inside the line; nothing
Bodies ==
    { <<"#", " ", "B", NL>>,
      <<NL, "#", " ", "B", NL>>,
      <<" ", " ", "x", NL>>,
      <<"#", " ", "B", " ", "+", "+", "+", " ", "x", NL>>,
      <<>> }

\* the lines of a header, each ended by a newline
RECURSIVE unlines(_)
unlines(ls) == IF ls = <<>> THEN <<>> ELSE ls[1] \o <<NL>> \o unlines(Tail(ls))

\* delimiter line, header lines, delimiter line, blank line, body
file_text(opening, header, closing, body) ==
    opening \o unlines(header) \o closing \o <<NL>> \o body

\* the one record file of the text-level runs
RecPath == Path("tasks", <<"9", "9", "-", "s">>)

Done_text == <<"D", "o", "n", "e">>

\* ------------------------------------------------------- initial states
id01 == <<"0", "1">>
id02 == <<"0", "2">>
id03 == <<"0", "3">>

stemA == <<"0", "1", "-", "a">>
stemB == <<"0", "2", "-", "b">>
stemC == <<"0", "3", "-", "c">>
stemZ == <<"0", "1", "-", "z">>

Sep == <<",", " ">>

\* the dependency strings of the records 01-a, 02-b, 03-c
Graphs ==
    { <<<<>>, <<>>, <<>>>>,                                 \* no dependency
      <<<<>>, id01, id02>>,                                 \* 03 -> 02 -> 01
      <<id02, id03, <<>>>>,                                 \* 01 -> 02 -> 03
      <<id02 \o Sep \o id03, id03, <<>>>>,                  \* 01 -> {02, 03}
      <<id02, id01, <<>>>>,                                 \* 01 <-> 02
      <<id02, id03, id01>>,                                 \* 01 -> 02 -> 03 -> 01
      <<id02 \o Sep \o id03, id01, id01>>,                  \* two cycles
      <<<<>>, id03, <<"9", "9">> \o Sep \o id03>> }         \* unknown id, self

record(id, title, value, deps) ==
    [fm |-> TRUE, id |-> id, title |-> title, status |-> value,
     dependencies |-> deps, last_updated |-> 0]

\* a file whose header block does not parse
malformed(id, title) ==
    [fm |-> FALSE, id |-> id, title |-> title, status |-> "Not started",
     dependencies |-> <<>>, last_updated |-> 0]

\* the third record (in the .done archive and merged, at top level, at top
\* level with a status nobody defined, or with a header that does not parse), an optional second file
\* carrying the id 01, and the worktree of 02-b (absent, clean without a
\* record copy, or dirty with a copy of the record as it was when the
\* worktree was made)
third_done(deps)  == Path(".done", stemC) :> record(id03, "C", "Merged", deps)
third_top(deps)   == Path("tasks", stemC) :> record(id03, "C", "Started", deps)
third_bad         == Path("tasks", stemC) :> malformed(id03, "C")
third_bogus(deps) == Path("tasks", stemC) :> record(id03, "C", "bogus", deps)
dup_file          == Path("tasks", stemZ) :> record(id01, "Z", "Started", <<>>)
wt_clean          == [w |-> stemB :> [dirty |-> FALSE], f |-> <<>>]
wt_copy(deps)     == [w |-> stemB :> [dirty |-> TRUE],
                      f |-> wt_task_path(Path("tasks", stemB))
                              :> record(id02, "B", "Started", deps)]
wt_none           == [w |-> <<>>, f |-> <<>>]

Layouts(g) ==
    { [more |-> t, wt |-> w] :
        t \in {third_done(g[3]), third_top(g[3]), third_bogus(g[3]), third_bad},
        w \in {wt_none, wt_clean, wt_copy(g[2])} }
    \cup
    { [more |-> third_top(g[3]) @@ dup_file, wt |-> w] :
        w \in {wt_none, wt_copy(g[2])} }

Branch(ahead, behind, stat, conflict) ==
    [ahead |-> ahead, behind |-> behind, stat |-> stat, conflict |-> conflict]

\* task branches and the integration branch: no task branch; one for 01 with
\* a commit ahead and one for 02 with none; one for 01 while "agentydragon"
\* does not resolve; two for 01 of which the first has nothing ahead
Repos ==
    { [br |-> <<>>, integ |-> TRUE],
      [br |-> (id01 :> <<Branch(1, 1, "2f,3i,1d", TRUE)>>)
              @@ (id02 :> <<Branch(0, 2, "2f,3i,1d", FALSE)>>), integ |-> TRUE],
      [br |-> id01 :> <<Branch(1, 0, "", FALSE)>>, integ |-> FALSE],
      [br |-> id01 :> <<Branch(0, 1, "1f,1i,0d", FALSE),
                        Branch(2, 1, "1f,1i,0d", TRUE)>>, integ |-> TRUE] }

Init ==
    \E g \in Graphs, sA \in {"Started", "Done"} :
      \E lay \in Layouts(g), repo \in Repos :
        /\ files = (Path("tasks", stemA) :> record(id01, "A", sA, g[1]))
                   @@ (Path("tasks", stemB) :> record(id02, "B", "Not started", g[2]))
                   @@ lay.more
        /\ worktrees = lay.wt.w
        /\ wtfiles = lay.wt.f
        /\ branches = repo.br
        /\ integration = repo.integ
        /\ now = 0
        /\ lastOp = [op |-> "none"]
        /\ out = [cmd |-> "none"]

\* ---------------------------------------------------------------- actions
\* the CLI arguments tried
TaskIdArgs == {id01, id02, id03}
StatusArgs == {"Done", "Merged", "bogus"}

\* (mutant) a status that writes each worktree copy back over the record
Status_writing_back ==
    /\ out.cmd = "none"
    /\ out' = status(files, wtfiles, worktrees, branches, integration)
    /\ files' = [p \in DOMAIN files |->
                   IF wt_task_path(p) \in DOMAIN wtfiles
                   THEN wtfiles[wt_task_path(p)] ELSE files[p]]
    /\ UNCHANGED <<worktrees, wtfiles, branches, integration, now, lastOp>>

\* (a read-only command is observed once per repository state: run again
\* in the same state it repeats itself, so it is taken while out is empty)
Status ==
    /\ out.cmd = "none"
    /\ out' = status(files, wtfiles, worktrees, branches, integration)
    /\ UNCHANGED <<files, worktrees, wtfiles, branches, integration, now, lastOp>>

CheckTasks ==
    \E order \in Orders(DOMAIN files) :
        /\ out.cmd = "none"
        /\ out' = check_tasks_main(files, order)
        /\ UNCHANGED <<files, worktrees, wtfiles, branches, integration, now, lastOp>>

CheckTaskCycles ==
    \E order \in Orders(DOMAIN files) :
        /\ out.cmd = "none"
        /\ out' = check_task_cycles_main(files, order)
        /\ UNCHANGED <<files, worktrees, wtfiles, branches, integration, now, lastOp>>

\* set-status TASK_ID STATUS
SetStatus ==
    \E task_id \in TaskIdArgs, value \in StatusArgs :
        /\ now < MaxOps
        /\ now' = now + 1
        /\ out' = [cmd |-> "none"]
        /\ LET found == glob_id(files, task_id)
           IN IF found = {}
              THEN /\ lastOp' = [op |-> "set_status", task_id |-> task_id,
                                 status |-> value, exit |-> 1]
                   /\ UNCHANGED files
              ELSE \E path \in found :
                     IF ~load_ok(files[path])
                     THEN /\ lastOp' = [op |-> "set_status", task_id |-> task_id,
                                        status |-> value, exit |-> 1]
                          /\ UNCHANGED files
                     ELSE /\ files' = [files EXCEPT ![path] =
                                          set_status_file(@, value, now')]
                          /\ lastOp' = [op |-> "set_status", task_id |-> task_id,
                                        status |-> value, path |-> path,
                                        exit |-> 0]
        /\ UNCHANGED <<worktrees, wtfiles, branches, integration>>

\* the dependency lists tried as arguments of set-deps
DepsArgs == {<<id01>>, <<id02, id03>>}

\* set-deps TASK_ID DEPS...
SetDeps ==
    \E task_id \in TaskIdArgs, deps \in DepsArgs :
        /\ now < MaxOps
        /\ now' = now + 1
        /\ out' = [cmd |-> "none"]
        /\ LET found == glob_id(files, task_id)
           IN IF found = {}
              THEN /\ lastOp' = [op |-> "set_deps", task_id |-> task_id,
                                 deps |-> deps, exit |-> 1]
                   /\ UNCHANGED files
              ELSE \E path \in found :
                     IF ~load_ok(files[path])
                     THEN /\ lastOp' = [op |-> "set_deps", task_id |-> task_id,
                                        deps |-> deps, exit |-> 1]
                          /\ UNCHANGED files
                     ELSE /\ files' = [files EXCEPT ![path] =
                                          set_deps_file(@, deps, now')]
                          /\ lastOp' = [op |-> "set_deps", task_id |-> task_id,
                                        deps |-> deps, path |-> path,
                                        exit |-> 0]
        /\ UNCHANGED <<worktrees, wtfiles, branches, integration>>

Next == Status \/ CheckTasks \/ CheckTaskCycles \/ SetStatus \/ SetDeps

Spec == Init /\ [][Next]_vars

\* ------------------------------------------------------ organize_done_tasks
\* sorted(root.glob('[0-9][0-9]-*.md')) less the plan files: top level only
organize_scan(fs) ==
    sorted_paths({p \in DOMAIN fs :
                    p.dir = "tasks" /\ glob_task(p.stem)
                    /\ ~endswith(p.stem, PlanSuffix)})

\* git mv md .done/<name>
git_mv(fs, md) ==
    LET target == Path(".done", md.stem)
    IN [q \in (DOMAIN fs \ {md}) \cup {target} |->
          IF q = target THEN fs[md] ELSE fs[q]]

\* the loop of main: load_task is not guarded, and git mv (check=True)
\* raises when the target exists; either ends the run where it stands
RECURSIVE organize_loop(_, _)
organize_loop(paths, acc) ==
    IF paths = <<>> \/ acc.raised THEN acc
    ELSE LET md == paths[1]
         IN IF ~load_ok(acc.files[md])
            THEN [acc EXCEPT !.raised = TRUE]
            ELSE IF load_task(acc.files[md]).status # "Merged"
            THEN organize_loop(Tail(paths), acc)
            ELSE IF Path(".done", md.stem) \in DOMAIN acc.files
            THEN [acc EXCEPT !.raised = TRUE]
            ELSE organize_loop(Tail(paths),
                     [acc EXCEPT !.files = git_mv(@, md),
                                 !.moved = Append(@, md)])

organize_done_tasks(fs) ==
    organize_loop(organize_scan(fs),
                  [files |-> fs, moved |-> <<>>, raised |-> FALSE])

\* organize_done_tasks.py
Organize ==
    LET r == organize_done_tasks(files)
    IN /\ files' = r.files
       /\ lastOp' = [op |-> "organize", before |-> files, moved |-> r.moved,
                     exit |-> IF r.raised THEN 1 ELSE 0]
       /\ out' = [cmd |-> "none"]
       /\ UNCHANGED <<worktrees, wtfiles, branches, integration, now>>

\* records are set to Merged by set-status and archived by the maintenance
\* step
ArchiveNext == SetStatus \/ Organize

ArchiveSpec == Init /\ [][ArchiveNext]_vars

\* ------------------------------------- set-status and set-deps overlapping
\* Two invocations on one task id, each a process of its own running load,
\* modify, save; lastOp holds, for each, where it stands (pc), the file its
\* glob gave (path) and its local record (meta).  Nothing in the code makes
\* one wait for the other.
Invoke ==
    \E task_id \in TaskIdArgs, value \in StatusArgs, deps \in DepsArgs :
        /\ lastOp.op = "none"
        /\ lastOp' = [op |-> "overlap", task_id |-> task_id,
                      status |-> value, deps |-> deps,
                      st |-> [pc |-> "start"], sd |-> [pc |-> "start"]]
        /\ out' = [cmd |-> "none"]
        /\ UNCHANGED <<files, worktrees, wtfiles, branches, integration, now>>

\* files = glob(...); path = files[0]; meta, body = load_task(path): the
\* process as it stands after these lines
loaded_from(fs, task_id) ==
    LET found == glob_id(fs, task_id)
    IN IF found = {} THEN {[pc |-> "exit1"]}
       ELSE {IF load_ok(fs[path])
             THEN [pc |-> "loaded", path |-> path, meta |-> load_task(fs[path])]
             ELSE [pc |-> "raised"] : path \in found}

SetStatusLoad ==
    /\ lastOp.op = "overlap" /\ lastOp.st.pc = "start"
    /\ \E p \in loaded_from(files, lastOp.task_id) :
          lastOp' = [lastOp EXCEPT !.st = p]
    /\ UNCHANGED <<files, worktrees, wtfiles, branches, integration, now, out>>

\* meta.status = status; meta.last_updated = datetime.utcnow()
SetStatusModify ==
    /\ lastOp.op = "overlap" /\ lastOp.st.pc = "loaded"
    /\ now' = now + 1
    /\ lastOp' = [lastOp EXCEPT !.st.pc = "modified",
                                !.st.meta.status = lastOp.status,
                                !.st.meta.last_updated = now']
    /\ UNCHANGED <<files, worktrees, wtfiles, branches, integration, out>>

\* save_task(path, meta, body)
SetStatusSave ==
    /\ lastOp.op = "overlap" /\ lastOp.st.pc = "modified"
    /\ files' = [files EXCEPT ![lastOp.st.path] = save_task(lastOp.st.meta)]
    /\ lastOp' = [lastOp EXCEPT !.st.pc = "done"]
    /\ UNCHANGED <<worktrees, wtfiles, branches, integration, now, out>>

SetDepsLoad ==
    /\ lastOp.op = "overlap" /\ lastOp.sd.pc = "start"
    /\ \E p \in loaded_from(files, lastOp.task_id) :
          lastOp' = [lastOp EXCEPT !.sd = p]
    /\ UNCHANGED <<files, worktrees, wtfiles, branches, integration, now, out>>

\* meta.dependencies = f'as of {now}: ' + ', '.join(deps);
\* meta.last_updated = datetime.utcnow()
SetDepsModify ==
    /\ lastOp.op = "overlap" /\ lastOp.sd.pc = "loaded"
    /\ now' = now + 1
    /\ lastOp' = [lastOp EXCEPT !.sd.pc = "modified",
                                !.sd.meta.dependencies = deps_text(lastOp.deps, now'),
                                !.sd.meta.last_updated = now']
    /\ UNCHANGED <<files, worktrees, wtfiles, branches, integration, out>>

SetDepsSave ==
    /\ lastOp.op = "overlap" /\ lastOp.sd.pc = "modified"
    /\ files' = [files EXCEPT ![lastOp.sd.path] = save_task(lastOp.sd.meta)]
    /\ lastOp' = [lastOp EXCEPT !.sd.pc = "done"]
    /\ UNCHANGED <<worktrees, wtfiles, branches, integration, now, out>>

OverlapNext ==
    \/ Invoke
    \/ SetStatusLoad \/ SetStatusModify \/ SetStatusSave
    \/ SetDepsLoad \/ SetDepsModify \/ SetDepsSave

OverlapSpec == Init /\ [][OverlapNext]_vars

\* ------------------------------------------------- text-level behaviours
\* One record file, given as text.  The clock starts at 1; a save is the two
\* steps of Path.write_text (open for writing, which empties the file, then
\* write and close), and the process may die between them.
TextInit ==
    \E o \in Delimiters, h \in Headers, c \in Delimiters, b \in Bodies :
        /\ files = (RecPath :> file_text(o, h, c, b))
        /\ worktrees = <<>>
        /\ wtfiles = <<>>
        /\ branches = <<>>
        /\ integration = TRUE
        /\ now = 1
        /\ lastOp = [op |-> "none", pc |-> "idle"]
        /\ out = [cmd |-> "none"]

\* load_task(path)
LoadTask ==
    /\ out.cmd = "none"
    /\ lastOp.pc # "opened"
    /\ out' = [cmd |-> "load_task", text |-> files[RecPath],
               res |-> load_task_text(files[RecPath], now)]
    /\ UNCHANGED <<files, worktrees, wtfiles, branches, integration, now, lastOp>>

\* the status values a caller may assign between load and save ("keep":
\* no field is changed; "+++": the value set-status 99 +++ stores)
EditArgs == {"keep", "Done", "+++"}

\* the text of a status argument
status_text(edit) == IF edit = "Done" THEN Done_text ELSE Fence

\* meta, body = load_task(path); [meta.status = status;] save_task(path,
\* meta, body) up to the open() inside write_text
SaveTaskOpen ==
    \E edit \in EditArgs :
        LET r == load_task_text(files[RecPath], now)
            meta == IF edit = "keep" THEN r.meta
                    ELSE [r.meta EXCEPT !.status = status_text(edit)]
        IN /\ lastOp.pc \in {"idle", "closed"}
           /\ now <= MaxOps
           /\ r.ok
           /\ lastOp' = [op |-> "save", pc |-> "opened", edit |-> edit,
                         old |-> files[RecPath], loaded |-> r.meta,
                         body |-> r.body,
                         content |-> save_task_text(meta, r.body)]
           /\ files' = (RecPath :> <<>>)
           /\ now' = now + 1
           /\ out' = [cmd |-> "none"]
           /\ UNCHANGED <<worktrees, wtfiles, branches, integration>>

\* write_text writes the content and closes the file
SaveTaskWrite ==
    /\ lastOp.pc = "opened"
    /\ files' = (RecPath :> lastOp.content)
    /\ lastOp' = [lastOp EXCEPT !.pc = "closed"]
    /\ UNCHANGED <<worktrees, wtfiles, branches, integration, now, out>>

\* the process dies inside save_task, after open() and before the write
Crash ==
    /\ lastOp.pc = "opened"
    /\ lastOp' = [lastOp EXCEPT !.pc = "crashed"]
    /\ UNCHANGED <<files, worktrees, wtfiles, branches, integration, now, out>>

TextNext == LoadTask \/ SaveTaskOpen \/ SaveTaskWrite \/ Crash

TextSpec == TextInit /\ [][TextNext]_vars

\* ------------------------------------------ check_cycles, one step at a time
\* The traversal of check_cycles as the interpreter runs it: out holds the
\* locals of check_cycles (deps_map, failures, visited, stack), the nodes the
\* for loop has still to start from (todo) and the activations of visit in
\* progress (frames: the node and the dependencies its loop has still to
\* take).  expanded logs every execution of stack.append(n).

\* number of dependency tokens written in one record
MaxDeps == 2

\* the dependency lists of that length over the three ids
DepLists == UNION {[1..n -> {id01, id02, id03}] : n \in 0..MaxDeps}

GraphInit ==
    \E d1 \in DepLists, d2 \in DepLists :
      \E d3 \in {<<>>, <<id01>>}, s3 \in {"Started", "Merged"} :
        /\ files = (Path("tasks", stemA) :> record(id01, "A", "Started", join(d1)))
                   @@ (Path("tasks", stemB) :> record(id02, "B", "Started", join(d2)))
                   @@ (Path("tasks", stemC) :> record(id03, "C", s3, join(d3)))
        /\ worktrees = <<>>
        /\ wtfiles = <<>>
        /\ branches = <<>>
        /\ integration = TRUE
        /\ now = 0
        /\ lastOp = [op |-> "none"]
        /\ out = [cmd |-> "none"]

\* (mutant) visit returning without visited.add(n)
visit_return_unmarked(st) ==
    [st EXCEPT !.stack = SubSeq(@, 1, Len(@) - 1),
               !.frames = SubSeq(@, 1, Len(@) - 1)]

\* the call visit(n) up to its loop: a node on the stack appends a cycle and
\* returns, a visited node returns, any other node is pushed
visit_call(n, st) ==
    IF n \in Elems(st.stack)
    THEN [st EXCEPT !.failures =
            Append(@, SubSeq(st.stack, index_of(st.stack, n), Len(st.stack))
                      \o <<n>>)]
    ELSE IF n \in st.visited THEN st
    ELSE [st EXCEPT !.stack = Append(@, n),
                    !.frames = Append(@, [n |-> n,
                                          rest |-> dict_get_list(st.deps_map, n)]),
                    !.expanded = Append(@, n)]

\* the end of visit's loop: stack.pop(), visited.add(n), return
visit_return(st) ==
    [st EXCEPT !.stack = SubSeq(@, 1, Len(@) - 1),
               !.visited = @ \cup {st.frames[Len(st.frames)].n},
               !.frames = SubSeq(@, 1, Len(@) - 1)]

\* the loading loop of check_cycles, the files coming in some order
CheckCyclesLoad ==
    \E order \in Orders(DOMAIN files) :
        LET ld == cc_load(files, order,
                      [merged |-> {}, deps_map |-> EmptyDict, raised |-> FALSE])
        IN /\ out.cmd = "none"
           /\ out' = [cmd |-> "check_cycles",
                      pc |-> IF ld.raised THEN "raised" ELSE "loop",
                      order |-> order, deps_map |-> ld.deps_map,
                      todo |-> ld.deps_map.keys, frames |-> <<>>,
                      failures |-> <<>>, visited |-> {}, stack |-> <<>>,
                      expanded |-> <<>>]
           /\ UNCHANGED <<files, worktrees, wtfiles, branches, integration,
                          now, lastOp>>

\* for node in deps_map: visit(node)
VisitNode ==
    /\ out.cmd = "check_cycles" /\ out.pc = "loop"
    /\ out.frames = <<>> /\ out.todo # <<>>
    /\ out' = visit_call(out.todo[1], [out EXCEPT !.todo = Tail(@)])
    /\ UNCHANGED <<files, worktrees, wtfiles, branches, integration, now, lastOp>>

\* for m in deps_map.get(n, []): visit(m)
VisitDep ==
    /\ out.cmd = "check_cycles" /\ out.pc = "loop"
    /\ out.frames # <<>> /\ out.frames[Len(out.frames)].rest # <<>>
    /\ LET k == Len(out.frames)
       IN out' = visit_call(out.frames[k].rest[1],
                            [out EXCEPT !.frames[k].rest = Tail(@)])
    /\ UNCHANGED <<files, worktrees, wtfiles, branches, integration, now, lastOp>>

VisitReturn ==
    /\ out.cmd = "check_cycles" /\ out.pc = "loop"
    /\ out.frames # <<>> /\ out.frames[Len(out.frames)].rest = <<>>
    /\ out' = visit_return(out)
    /\ UNCHANGED <<files, worktrees, wtfiles, branches, integration, now, lastOp>>

\* return failures
CheckCyclesReturn ==
    /\ out.cmd = "check_cycles" /\ out.pc = "loop"
    /\ out.frames = <<>> /\ out.todo = <<>>
    /\ out' = [out EXCEPT !.pc = "done"]
    /\ UNCHANGED <<files, worktrees, wtfiles, branches, integration, now, lastOp>>

GraphNext ==
    CheckCyclesLoad \/ VisitNode \/ VisitDep \/ VisitReturn \/ CheckCyclesReturn

\* the interpreter runs a started command to its end
GraphSpec == GraphInit /\ [][GraphNext]_vars /\ WF_vars(GraphNext)

\* ======================================================================
\* Properties.  The graph of a status run is restated here from the loaded
\* records alone (out.all_meta), not from deps_map or sorted_ids.
\* ======================================================================
Loaded == Elems(out.all_meta.keys)

MetaOf(t) == dict_get(out.all_meta, t)

Tokens(t) == Elems(findall_digits(MetaOf(t).dependencies))

\* t -> d is an edge of the active graph
ActiveEdge(t, d) ==
    /\ t \in Loaded
    /\ d \in Loaded
    /\ d \in Tokens(t)
    /\ MetaOf(d).status # "Merged"

Succ(t) == {d \in Loaded : ActiveEdge(t, d)}

RECURSIVE Closure(_)
Closure(S) ==
    LET n == S \cup UNION {Succ(t) : t \in S}
    IN IF n = S THEN S ELSE Closure(n)

OnCycle(t) == t \in Closure(Succ(t))

Cyclic == \E t \in Loaded : OnCycle(t)

Pos(s, x) == index_of(s, x)

Count(s, x) == Cardinality({i \in 1..Len(s) : s[i] = x})

StatusRan == out.cmd = "status"

\* C1: when the active graph of the loaded records is acyclic, the order
\* computed by status lists every loaded task once and places every known,
\* non-merged dependency before the task that depends on it.
C1_TopoOrder ==
    (StatusRan /\ ~Cyclic) =>
        /\ \A t \in Loaded : Count(out.sorted_ids, t) = 1
        /\ \A t \in Loaded : \A d \in Succ(t) :
              Pos(out.sorted_ids, d) < Pos(out.sorted_ids, t)

\* the scenario of the specification: 02 depends on 01, 03 on 02, none merged
C1_Witness ==
    /\ StatusRan
    /\ ~Cyclic
    /\ Succ(id01) = {} /\ Succ(id02) = {id01} /\ Succ(id03) = {id02}
    /\ out.sorted_ids = <<id01, id02, id03>>
    /\ out.unblocked = <<id01>>

\* C5: every entry of deps_map holds exactly the dependency tokens that
\* name a loaded, non-merged record, in the order written; unknown and
\* merged references are dropped and nothing is raised for them.
C5_ActiveDepsOnly ==
    StatusRan =>
        \A t \in Loaded :
            LET deps == dict_get_list(out.deps_map, t)
            IN /\ dict_has(out.deps_map, t)
               /\ \A d \in Elems(deps) :
                     d \in Loaded /\ MetaOf(d).status # "Merged"
               /\ Elems(deps) = Succ(t)

C5_Witness ==
    /\ StatusRan
    /\ \E t \in Loaded : \E d \in Tokens(t) : d \notin Loaded
    /\ \E t \in Loaded : \E d \in Tokens(t) :
          d \in Loaded /\ MetaOf(d).status = "Merged"
    /\ \E t \in Loaded : Succ(t) # {}

\* C6: the Unblocked set that status computes is exactly the loaded tasks
\* that are not Merged and have no active dependency, each listed once.
C6_Unblocked ==
    (StatusRan /\ out.raised = "no") =>
        /\ Elems(out.unblocked) =
              {t \in Loaded : MetaOf(t).status # "Merged" /\ Succ(t) = {}}
        /\ \A t \in Elems(out.unblocked) : Count(out.unblocked, t) = 1

C6_Witness ==
    /\ StatusRan /\ out.raised = "no"
    /\ \E t \in Elems(out.unblocked) : TRUE
    /\ \E t \in Loaded : Succ(t) # {} /\ t \notin Elems(out.unblocked)
    /\ \E t \in Loaded : MetaOf(t).status = "Merged" /\ Succ(t) = {}

\* the repository state of a loaded task, read from the state itself
HasBranch(t) == t \in DOMAIN branches /\ branches[t] # <<>>

HasWorktree(t) == dict_get(out.path_map, t).stem \in DOMAIN worktrees

FullyArchived(t) ==
    MetaOf(t).status = "Merged" /\ ~HasBranch(t) /\ ~HasWorktree(t)

RowIds == [i \in 1..Len(out.rows) |-> out.rows[i].id]

\* C8: in a report whose table was printed, a loaded task is in the Merged
\* summary iff it is Merged with no branch and no worktree directory, and
\* otherwise is a row of the table: exactly once in one, never in the other.
C8_ArchivedPartition ==
    (StatusRan /\ out.raised # "rows") =>
        /\ \A t \in Loaded :
              IF FullyArchived(t)
              THEN Count(out.merged_tasks, t) = 1 /\ Count(RowIds, t) = 0
              ELSE Count(out.merged_tasks, t) = 0 /\ Count(RowIds, t) = 1
        /\ Elems(out.merged_tasks) \cup Elems(RowIds) = Loaded

C8_Witness ==
    /\ StatusRan /\ out.raised # "rows"
    /\ \E t \in Loaded : FullyArchived(t)
    /\ \E t \in Loaded : MetaOf(t).status = "Merged" /\ HasWorktree(t)
    /\ \E t \in Loaded : MetaOf(t).status # "Merged" /\ ~HasBranch(t)

\* file name of the record status loaded for t
FileName(t) == dict_get(out.path_map, t).stem

\* s lists the loaded tasks once each, by non-decreasing record file name
InFileNameOrder(s) ==
    /\ \A t \in Loaded : Count(s, t) = 1
    /\ Elems(s) = Loaded
    /\ \A i \in 1..(Len(s) - 1) : ~StrLess(FileName(s[i + 1]), FileName(s[i]))

NotArchived(t) == ~FullyArchived(t)

\* C3: with a cycle in the active graph, status does not abort: it warns
\* naming a task on a cycle, orders all loaded tasks by record file name, and
\* still produces the table, the Merged summary, Ready to merge and
\* Unblocked from that order.
C3_CycleFallback ==
    (StatusRan /\ Cyclic) =>
        /\ out.warning # <<>>
        /\ OnCycle(out.warning[1])
        /\ InFileNameOrder(out.sorted_ids)
        /\ out.raised = "no"
        /\ out.exit = 0
        /\ RowIds = SelectSeq(out.sorted_ids, NotArchived)
        /\ out.merged_tasks = SelectSeq(out.sorted_ids, FullyArchived)

\* ---- the record files as the check commands see them
RecFiles ==
    {p \in DOMAIN files :
        glob_task(p.stem) /\ ~endswith(p.stem, PlanSuffix) /\ load_ok(files[p])}

UniqueIds ==
    \A p, q \in RecFiles : files[p].id = files[q].id => p = q

LiveIds == {files[p].id : p \in {q \in RecFiles : files[q].status # "Merged"}}

FileEdge(a, b) ==
    /\ b \in LiveIds
    /\ \E p \in RecFiles :
          /\ files[p].id = a
          /\ files[p].status # "Merged"
          /\ b \in Elems(findall_digits(files[p].dependencies))

FileSucc(a) == {b \in LiveIds : FileEdge(a, b)}

RECURSIVE FileClosure(_)
FileClosure(S) ==
    LET n == S \cup UNION {FileSucc(t) : t \in S}
    IN IF n = S THEN S ELSE FileClosure(n)

FileCyclic == \E t \in LiveIds : t \in FileClosure(FileSucc(t))

\* c starts and ends with the same id and follows edges of the active graph
IsCycle(c) ==
    /\ Len(c) >= 2
    /\ c[1] = c[Len(c)]
    /\ \A i \in 1..(Len(c) - 1) : FileEdge(c[i], c[i + 1])

\* C2: on the active graph of the record files, check_cycles reports a
\* cycle and check_task_cycles exits non-zero whenever there is one, every
\* reported cycle is a closed walk along active edges, and nothing is
\* reported when the graph is acyclic.
C2_CycleDetection ==
    UniqueIds =>
        /\ out.cmd = "check_tasks" =>
              /\ FileCyclic => (~out.raised /\ out.cyc_fail # <<>>)
              /\ ~FileCyclic => out.cyc_fail = <<>>
              /\ \A c \in Elems(out.cyc_fail) : IsCycle(c)
        /\ out.cmd = "check_task_cycles" =>
              /\ FileCyclic => out.exit # 0
              /\ ~FileCyclic => out.cycle = <<>>
              /\ out.cycle # <<>> => IsCycle(out.cycle)

\* ---- set-status followed by a status run
SetStatusDone(value) ==
    lastOp.op = "set_status" /\ lastOp.exit = 0 /\ lastOp.status = value

\* the loaded tasks whose only dependency reference is y
OnlyDependsOn(y) ==
    {x \in Loaded : findall_digits(MetaOf(x).dependencies) = <<y>>}

SoleRecord(y) ==
    /\ files[lastOp.path].id = y
    /\ \A p \in RecFiles : files[p].id = y => p = lastOp.path
    /\ wt_task_path(lastOp.path) \notin DOMAIN wtfiles

FirstBranchAhead(t) == HasBranch(t) /\ branches[t][1].ahead > 0

SomeBranchAhead(t) ==
    HasBranch(t) /\ \E i \in 1..Len(branches[t]) : branches[t][i].ahead > 0

\* C7 as claimed: Ready to merge is exactly the Done tasks that have a
\* matching branch with at least one commit ahead of the integration branch.
C7_ReadyToMerge ==
    (StatusRan /\ out.raised = "no") =>
        Elems(out.ready_tasks) =
            {t \in Loaded : MetaOf(t).status = "Done" /\ SomeBranchAhead(t)}

\* C7 amended: ... exactly the Done tasks whose first matching branch has at
\* least one commit ahead of the integration branch, each listed once.
C7_ReadyToMerge_Amended ==
    (StatusRan /\ out.raised = "no") =>
        /\ Elems(out.ready_tasks) =
              {t \in Loaded : MetaOf(t).status = "Done" /\ FirstBranchAhead(t)}
        /\ \A t \in Elems(out.ready_tasks) : Count(out.ready_tasks, t) = 1

C7_Witness ==
    /\ StatusRan /\ out.raised = "no"
    /\ \E t \in Elems(out.ready_tasks) : FirstBranchAhead(t)
    /\ \E t \in Loaded :
          /\ MetaOf(t).status = "Done"
          /\ HasBranch(t)
          /\ ~FirstBranchAhead(t)
          /\ t \notin Elems(out.ready_tasks)

\* ---- the status enumeration
\* allowed status values (section 6 of the specification)
StatusEnum ==
    {"Not started", "Started", "In progress", "Needs manual review",
     "Needs input", "Done", "Cancelled", "Merged", "Reopened"}

\* C9: load never returns a record whose status is outside the
\* enumeration; a file carrying such a status is reported as a load error.
C9_LoadValidatesStatus ==
    StatusRan =>
        /\ \A t \in Loaded : MetaOf(t).status \in StatusEnum
        /\ \A p \in DOMAIN files :
              (glob_task(p.stem) /\ files[p].status \notin StatusEnum)
                 => p \in Elems(out.errors)

\* C10: set-status with a value outside the enumeration exits non-zero, and
\* no set-status leaves a stored status outside the enumeration.
C10_SetStatusValidates ==
    lastOp.op = "set_status" =>
        /\ lastOp.status \notin StatusEnum => lastOp.exit # 0
        /\ lastOp.exit = 0 => files[lastOp.path].status \in StatusEnum

\* ---- set-deps followed by a status run
SetDepsDone == lastOp.op = "set_deps" /\ lastOp.exit = 0

\* C11: after set-deps ID DEPS..., the record written carries the time of
\* the operation as last_updated, and the dependency references a status run
\* then extracts for ID are among the ids given and include every given id
\* that names a loaded, non-merged record (the record written being the only
\* one carrying ID).
C11_SetDepsReplaces ==
    (StatusRan /\ SetDepsDone /\ SoleRecord(lastOp.task_id)) =>
        LET got == Elems(dict_get_list(out.deps_map, lastOp.task_id))
        IN /\ files[lastOp.path].last_updated = now
           /\ got \subseteq Elems(lastOp.deps)
           /\ \A d \in Elems(lastOp.deps) :
                 (d \in Loaded /\ MetaOf(d).status # "Merged") => d \in got

\* ---- the status command as a whole
\* C14: a status run that completes exits 0 exactly when every scanned
\* record loaded; with a load error it still lists every loaded task in the
\* table or the Merged summary.
C14_StatusExitCode ==
    (StatusRan /\ out.raised = "no") =>
        /\ out.errors = <<>> => out.exit = 0
        /\ out.errors # <<>> =>
              /\ out.exit # 0
              /\ Elems(RowIds) \cup Elems(out.merged_tasks) = Loaded

\* C15: a repository query that fails never aborts the report: every status
\* run completes and lists every loaded task in the table or the Merged
\* summary.
C15_QueryFailureDegrades ==
    StatusRan =>
        /\ out.raised = "no"
        /\ Elems(RowIds) \cup Elems(out.merged_tasks) = Loaded

\* C16: a step of the status command leaves the record files (those of the
\* worktrees too), the branches and the worktrees with their cleanliness as
\* they were, whether or not it met load errors or a cycle.
C16_StatusReadOnly ==
    [][(out.cmd = "none" /\ out'.cmd = "status") =>
          /\ files' = files
          /\ wtfiles' = wtfiles
          /\ branches' = branches
          /\ worktrees' = worktrees]_vars

\* a status run that met a load error and a cycle, in a repository with a
\* branch and a dirty worktree holding its own copy of a record
C16_Witness ==
    /\ StatusRan
    /\ out.errors # <<>>
    /\ out.warning # <<>>
    /\ branches # <<>>
    /\ \E w \in DOMAIN worktrees : worktrees[w].dirty
    /\ \E p \in DOMAIN files :
          wt_task_path(p) \in DOMAIN wtfiles /\ wtfiles[wt_task_path(p)] # files[p]

\* the files the status scan loads, in scan order, that carry the id t
ScannedWith(t) ==
    LET carries(p) == load_ok(files[p]) /\ files[p].id = t
    IN SelectSeq(status_scan(files), carries)

\* C17: when two scanned files carry the same id (no worktree copy in
\* play), status keeps the record of the file met first and flags every
\* later file among the problems it reports.
C17_DuplicateIds ==
    (StatusRan /\ wtfiles = <<>>) =>
        \A t \in Loaded :
            LET ps == ScannedWith(t)
            IN Len(ps) > 1 =>
                 /\ MetaOf(t) = load_task(files[ps[1]])
                 /\ dict_get(out.path_map, t) = ps[1]
                 /\ \A i \in 2..Len(ps) : ps[i] \in Elems(out.errors)

\* the files check_tasks scans whose header does not load
Unloadable ==
    {p \in DOMAIN files :
        glob_task(p.stem) /\ ~skip_path(p) /\ ~load_ok(files[p])}

\* C18: in check_tasks a file that does not load is listed among the
\* frontmatter errors and the cycle check still runs to its end: nothing is
\* raised, and a cycle among the loadable records is reported in the same
\* run, which exits non-zero.
C18_CheckTasksAccumulates ==
    (out.cmd = "check_tasks" /\ UniqueIds /\ Unloadable # {} /\ FileCyclic) =>
        /\ Elems(out.fm_fail) = Unloadable
        /\ ~out.raised
        /\ out.cyc_fail # <<>>
        /\ out.exit # 0

\* ======================================================================
\* Properties of load_task and save_task on the text of a file (TextSpec).
\* The shape of a file is restated from its lines, not from the pattern.
\* ======================================================================
TheText == files[RecPath]

Saved(edit) == lastOp.op = "save" /\ lastOp.pc = "closed" /\ lastOp.edit = edit

\* the first line is the delimiter line and a later line is one too
WellFenced(text) ==
    LET ls == splitlines(text)
    IN ls[1] = Fence /\ \E i \in 2..Len(ls) : ls[i] = Fence

\* the lines between the two delimiter lines of a well-fenced text
HeaderLines(text) ==
    LET ls == splitlines(text)
        close == Min({i \in 2..Len(ls) : ls[i] = Fence})
    IN SubSeq(ls, 2, close - 1)

HeaderValues(text, k) ==
    {toml_line(l).val : l \in {x \in Elems(HeaderLines(text)) :
                                  toml_line(x).kind = "pair" /\ toml_line(x).key = k}}

MissingRequired(text) ==
    \E k \in {k_id, k_title, k_status} : HeaderValues(text, k) = {}

BadTimestamp(text) ==
    \E v \in HeaderValues(text, k_last_updated) : ~parse_datetime(v).ok

\* the header as parsed back from a text, and what follows the header block
HeaderOf(text) == toml_loads(FRONTMATTER_RE(text).group).dict

RawBody(text) == SubSeq(text, FRONTMATTER_RE(text).end + 1, Len(text))

\* a body without its leading blank lines
RECURSIVE DropBlankLines(_)
DropBlankLines(b) ==
    LET i == find(b, <<NL>>, 1)
    IN IF i # 0 /\ Elems(SubSeq(b, 1, i - 1)) \subseteq {" "}
       THEN DropBlankLines(SubSeq(b, i + 1, Len(b)))
       ELSE b

\* header values are equal; timestamps are compared as timestamps
SameValue(k, v, w) ==
    IF k = k_last_updated THEN parse_datetime(v) = parse_datetime(w) ELSE v = w

\* the header holds no key besides the five fields of a record
OnlyFields(text) ==
    Elems(HeaderOf(text).keys) \subseteq
        {k_id, k_title, k_status, k_dependencies, k_last_updated}

\* C12: after save(load(path)) with no field changed, the written file
\* loads, its reparsed header has every key of the original header with the
\* same value, and its body is the original body less leading blank lines
\* (stated for files whose header holds only the fields of a record).
C12_RoundTrip ==
    (Saved("keep") /\ OnlyFields(lastOp.old)) =>
        LET h0 == HeaderOf(lastOp.old)
            h1 == HeaderOf(TheText)
        IN /\ load_task_text(TheText, now).ok
           /\ \A k \in Elems(h0.keys) :
                 dict_has(h1, k) /\ SameValue(k, dict_get(h0, k), dict_get(h1, k))
           /\ DropBlankLines(RawBody(TheText)) = DropBlankLines(RawBody(lastOp.old))

\* C13: when the process dies inside save, the file on disk is the complete
\* old content or the complete new content.
C13_SaveAtomic ==
    (lastOp.op = "save" /\ lastOp.pc = "crashed") =>
        TheText \in {lastOp.old, lastOp.content}

\* C19: a well-formed file is loaded, status is set to Done, the record is
\* saved with the loaded body; reloading gives status Done, the id, title,
\* dependencies and last_updated that were loaded, and the loaded body.
C19_SetStatusRoundTrip ==
    (Saved("Done") /\ WellFenced(lastOp.old)) =>
        LET r == load_task_text(TheText, now)
        IN /\ r.ok
           /\ r.meta = [lastOp.loaded EXCEPT !.status = Done_text]
           /\ r.body = lastOp.body

\* C20: load fails when the first line is not the delimiter line or no later
\* line is, when id, title or status is missing from the header, or when
\* last_updated is no timestamp.
C20_LoadRejectsMalformed ==
    out.cmd = "load_task" =>
        LET malformed_text ==
                \/ ~WellFenced(out.text)
                \/ MissingRequired(out.text)
                \/ BadTimestamp(out.text)
        IN malformed_text => ~out.res.ok

\* ======================================================================
\* Properties of the traversal of check_cycles (GraphSpec).  The cycles of
\* the active graph are restated from the record files (FileEdge).
\* ======================================================================
CcDone == out.cmd = "check_cycles" /\ out.pc = "done"

\* a reported cycle without its closing element
Front(c) == SubSeq(c, 1, Len(c) - 1)

\* the rotations of a cycle given as the list of its nodes
RotationsOf(f) ==
    {[i \in 1..Len(f) |-> f[((i + k - 1) % Len(f)) + 1]] : k \in 0..(Len(f) - 1)}

\* the simple cycles of the active graph, each as a list of distinct nodes
SimpleCycles ==
    {c \in UNION {[1..n -> LiveIds] : n \in 1..Cardinality(LiveIds)} :
        /\ \A i, j \in 1..Len(c) : c[i] = c[j] => i = j
        /\ \A i \in 1..(Len(c) - 1) : FileEdge(c[i], c[i + 1])
        /\ FileEdge(c[Len(c)], c[1])}

\* the cycles a list of failures reports, each up to rotation
ReportedIn(failures) ==
    {RotationsOf(Front(failures[i])) : i \in 1..Len(failures)}

\* C21: when check_cycles returns, every simple cycle of the active graph
\* is among the reported cycles up to rotation, and no two reported cycles
\* are the same cycle up to rotation.
C21_EveryCycleOnce ==
    CcDone =>
        /\ \A s \in SimpleCycles : RotationsOf(s) \in ReportedIn(out.failures)
        /\ \A i, j \in 1..Len(out.failures) :
              RotationsOf(Front(out.failures[i])) = RotationsOf(Front(out.failures[j]))
                 => i = j

\* the nodes of the graph check_cycles walks: the keys of deps_map and every
\* id named in one of its lists
GraphNodes ==
    Elems(out.deps_map.keys)
    \cup UNION {Elems(out.deps_map.val[i]) : i \in 1..Len(out.deps_map.val)}

\* no node is expanded twice; on return the recursion stack is empty, every
\* node is marked visited and has been expanded once
C22_TraversalSafe ==
    out.cmd = "check_cycles" =>
        /\ \A n \in GraphNodes : Count(out.expanded, n) <= 1
        /\ out.pc = "done" =>
              /\ out.stack = <<>>
              /\ out.frames = <<>>
              /\ out.visited = GraphNodes
              /\ \A n \in GraphNodes : Count(out.expanded, n) = 1
              /\ Elems(out.expanded) = GraphNodes

\* C22: the traversal of check_cycles ends on every record set, expanding
\* each node exactly once; when it has ended the recursion stack is empty
\* and every node of the graph is marked visited.
C22_TraversalTerminates == []C22_TraversalSafe /\ <>CcDone

\* a finished traversal of a graph with several cycles, a self-dependency and
\* a dependency token written twice
C22_Witness ==
    /\ CcDone
    /\ Len(out.failures) >= 2
    /\ \E n \in GraphNodes : n \in Elems(dict_get_list(out.deps_map, n))
    /\ \E n \in GraphNodes : \E d \in GraphNodes :
          Count(dict_get_list(out.deps_map, n), d) >= 2

\* sorted(paths) computed from the paths as enumerated in the order o
RECURSIVE SortedFrom(_)
SortedFrom(o) ==
    IF o = <<>> THEN <<>>
    ELSE insert_path(SortedFrom(SubSeq(o, 1, Len(o) - 1)), o[Len(o)])

\* C23: the cycles check_cycles reports (up to rotation) are the same for
\* every order in which the record files are enumerated, and the list of
\* files the status command loads, hence its topological order, is the same
\* for every enumeration order.
C23_OrderIndependent ==
    CcDone =>
        \A o \in Orders(DOMAIN files) :
            /\ ReportedIn(check_cycles(files, o).failures) = ReportedIn(out.failures)
            /\ SortedFrom(o) = status_scan(files)

\* ======================================================================
\* Properties of the directory scans and of the three cycle detectors (Spec).
\* ======================================================================
TaskTemplate == <<"t", "a", "s", "k", "-", "t", "e", "m", "p", "l", "a", "t", "e">>

\* a file the scans may pass to load: named NN-<slug>.md, not the template,
\* not a plan file, outside the archive and outside the worktrees
Admissible(p) ==
    /\ glob_task(p.stem)
    /\ p.stem # TaskTemplate
    /\ ~endswith(p.stem, PlanSuffix)
    /\ p.dir # ".done"
    /\ ~p.wt

\* the files each scan passes to load_task
StatusScanned == Elems(status_scan(files))

CheckTasksScanned == {p \in DOMAIN files : glob_task(p.stem) /\ ~skip_path(p)}

CheckTaskCyclesScanned ==
    {p \in DOMAIN files :
        glob_task(p.stem) /\ ~endswith(p.stem, PlanSuffix) /\ ~p.wt}

\* C24: every file that the scan of status, of check_tasks or of
\* check_task_cycles passes to load is named NN-<slug>.md, is neither the
\* template nor a plan file, and lies outside .done and .worktrees.
C24_ScanExclusions ==
    /\ StatusRan => \A p \in StatusScanned : Admissible(p)
    /\ out.cmd = "check_tasks" => \A p \in CheckTasksScanned : Admissible(p)
    /\ out.cmd = "check_task_cycles" =>
          \A p \in CheckTaskCyclesScanned : Admissible(p)

\* every file a scan finds loads
AllLoad == \A p \in DOMAIN files : glob_task(p.stem) => load_ok(files[p])

\* what each detector answers on the record files as they are
StatusFallsBack == out.warning # <<>>

CheckCyclesFinds(o) == check_cycles(files, o).failures # <<>>

CheckTaskCyclesFails(o) == check_task_cycles_main(files, o).exit # 0

SavedMeta ==
    IF lastOp.edit = "keep" THEN lastOp.loaded
    ELSE [lastOp.loaded EXCEPT !.status = status_text(lastOp.edit)]

\* C26: the file save wrote loads, and loading it returns the id, title,
\* status, dependencies and last_updated of the record that was saved, also
\* when a value holds the delimiter text +++.
C26_SavedFileLoads ==
    (lastOp.op = "save" /\ lastOp.pc = "closed") =>
        LET r == load_task_text(TheText, now)
        IN r.ok /\ r.meta = SavedMeta

\* ======================================================================
\* Archival (ArchiveSpec): the derived views of the record files before
\* (lastOp.before) and after a run of organize_done_tasks, which leaves the
\* worktrees and the branches alone.
\* ======================================================================
\* what a status run over the record files fs shows for each task: its
\* status and its active dependency list
TaskView(fs) ==
    LET s == status(fs, wtfiles, worktrees, branches, integration)
    IN [t \in Elems(s.all_meta.keys) |->
          [status |-> dict_get(s.all_meta, t).status,
           deps   |-> dict_get_list(s.deps_map, t)]]

\* the Unblocked set of that run
UnblockedView(fs) ==
    LET s == status(fs, wtfiles, worktrees, branches, integration)
    IN Elems(unblocked_of(s.all_meta, s.deps_map, s.sorted_ids))

\* the cycles check_tasks may report (up to rotation), over the orders in
\* which the files can come
CyclesView(fs) ==
    {ReportedIn(check_cycles(fs, o).failures) : o \in Orders(DOMAIN fs)}

\* C27: a run of organize_done_tasks leaves each task's status and active
\* dependency list as status shows them, the Unblocked set and the cycles
\* check_tasks reports as they were, and moves no record whose status is not
\* Merged (ids taken to be unique).
C27_ArchivalKeepsViews ==
    (lastOp.op = "organize" /\ UniqueIds) =>
        /\ TaskView(files) = TaskView(lastOp.before)
        /\ UnblockedView(files) = UnblockedView(lastOp.before)
        /\ CyclesView(files) = CyclesView(lastOp.before)
        /\ \A p \in DOMAIN lastOp.before :
              (load_ok(lastOp.before[p]) /\ lastOp.before[p].status # "Merged")
                 => (p \in DOMAIN files /\ files[p] = lastOp.before[p])

\* ======================================================================
\* Overlapping mutations (OverlapSpec).
\* ======================================================================
BothDone ==
    /\ lastOp.op = "overlap"
    /\ lastOp.st.pc = "done" /\ lastOp.sd.pc = "done"
    /\ lastOp.st.path = lastOp.sd.path

\* C28: when a set-status and a set-deps on the same record have both
\* completed, the record carries the status set-status gave and the
\* dependency text set-deps wrote, however their steps interleaved.
C28_NoLostUpdate ==
    BothDone =>
        /\ files[lastOp.st.path].status = lastOp.status
        /\ files[lastOp.sd.path].dependencies = lastOp.sd.meta.dependencies

====
